---- MODULE Spec2Model ----
(***************************************************************************)
(* Model of the supervisory control loop of the autocycle stability        *)
(* firmware (src/src/main.cpp, loop()).                                    *)
(*                                                                         *)
(* One iteration of loop() ("tick") is modelled as the sequence            *)
(*   Sense -> ReadSpeed -> GuardStep* (-> EnableWait* -> EnableDone)*      *)
(*         -> Action -> Report -> Poll                                     *)
(* The tick is split at the guards because the busy-wait                   *)
(* `while (!torque_motor->enableOperation());` can block inside the        *)
(* transition evaluation.                                                  *)
(*                                                                         *)
(* Units.  Speeds are integers in units of 0.5 m/s, lean angles are        *)
(* integers in units of PI/20 rad, so that every threshold of the source   *)
(* is an integer and the strict comparisons keep their boundary cases.     *)
(* Steering angle, rates and torque are read by the source but take part   *)
(* in no decision; they are not modelled.  Of the request byte only the    *)
(* four low bits are ever tested, the model keeps those four.              *)
(***************************************************************************)
EXTENDS Integers, Sequences, FiniteSets, TLC

VARIABLES
    state,      \* static uint8_t state (loop)
    cas,        \* the case of switch (state) the current tick executes
    user_req,   \* uint8_t user_req, low four bits
    phi,        \* roll angle of the snapshot, units of PI/20
    v,          \* measured speed of the snapshot, units of 0.5 m/s
    del_r,      \* steering reference
    v_r,        \* speed reference
    mode,       \* operating mode of the torque motor
    driveSpeed, \* last value given to drive_motor->setSpeed
    pulse,      \* indicator pulse: "off", "fallen" (500,1500), "calib" (250,250)
    rgb,        \* indicator colour pair, named after the state it shows
    pc,         \* position inside loop()
    gi,         \* index of the guard to evaluate next in the current case
    lastG,      \* index of the last guard that matched in this tick (0: none)
    log,        \* calls issued in this tick, with mode, state and del_r at the call
    startReq,   \* user_req when the tick started
    startMode,  \* mode when the tick started
    fires       \* per request bit: transitions it triggered since the last frame

vars == <<state, cas, user_req, phi, v, del_r, v_r, mode, driveSpeed, pulse,
          rgb, pc, gi, lastG, log, startReq, startMode, fires>>

----------------------------------------------------------------------------
(* Program constants *)

IDLE == 0
CALIB == 1
MANUAL == 2
ASSIST == 3
AUTO == 4
FALLEN == 5
E_STOP == 6

States == {IDLE, CALIB, MANUAL, ASSIST, AUTO, FALLEN, E_STOP}

R_CALIB == 1
R_MANUAL == 2
R_STOP == 4
R_RESUME == 8

ReqBits == {R_CALIB, R_MANUAL, R_STOP, R_RESUME}

FTHRESH == 5
UTHRESH == 1
HIGH_V_THRESH == 5
LOW_V_THRESH == 4
IDLE_V_THRESH == 2
STOP_V_THRESH == 1

OP_PROFILE_POSITION == "OP_PROFILE_POSITION"
OP_PROFILE_TORQUE == "OP_PROFILE_TORQUE"

Modes == {OP_PROFILE_POSITION, OP_PROFILE_TORQUE}

----------------------------------------------------------------------------
(* Bounds of the model *)

MaxPhi == 6
MaxV == 6
MaxRef == 1
MaxFires == 2
MaxState == 7

\* Lean angles: both signs, both sides of and exactly at each threshold.
PhiVals == {p \in (0 - MaxPhi)..MaxPhi :
                \/ p \in (0 - UTHRESH)..UTHRESH
                \/ p >= FTHRESH
                \/ p <= 0 - FTHRESH}
VVals == 0..MaxV
RefVals == 0..MaxRef
Payloads == 0..15
Tags == {"s", "d", "c", "other"}

----------------------------------------------------------------------------
(* Bit operations on the request byte *)

HasBit(r, b) == (r \div b) % 2 = 1

BitVal(c, b) == IF c THEN b ELSE 0

\* r & ~m
ClearBits(r, m) ==
    BitVal(HasBit(r, 1) /\ ~HasBit(m, 1), 1) + BitVal(HasBit(r, 2) /\ ~HasBit(m, 2), 2)
  + BitVal(HasBit(r, 4) /\ ~HasBit(m, 4), 4) + BitVal(HasBit(r, 8) /\ ~HasBit(m, 8), 8)

\* r | x
OrBits(r, x) ==
    BitVal(HasBit(r, 1) \/ HasBit(x, 1), 1) + BitVal(HasBit(r, 2) \/ HasBit(x, 2), 2)
  + BitVal(HasBit(r, 4) \/ HasBit(x, 4), 4) + BitVal(HasBit(r, 8) \/ HasBit(x, 8), 8)

fabs(x) == IF x < 0 THEN 0 - x ELSE x

----------------------------------------------------------------------------
(* The guards of each case, in source order.                               *)
(*   cond   the condition of the if                                        *)
(*   to     the value assigned to state                                    *)
(*   set    the mode given to setMode, "none" when the body has no setMode *)
(*   late   TRUE when the indicator colours are set after the enable wait  *)
(*   pulse  "fallen": setPulse(500,1500); "calib": setPulse(250,250);      *)
(*          "off": disablePulse(); "keep": the body leaves the pulse alone *)
(*   clear  the bits removed from user_req                                 *)
(*   stop   TRUE when the body calls drive_motor->setSpeed(0)              *)
(*   req    the request bit the condition tests, 0 when it tests none      *)

G(cond, to, set, late, pl, clear, stop, req) ==
    [cond |-> cond, to |-> to, set |-> set, late |-> late, pulse |-> pl,
     clear |-> clear, stop |-> stop, req |-> req]

FallGuard == G("fall", FALLEN, "none", FALSE, "fallen", 0, FALSE, 0)

\* Mutant: the fall guard is evaluated last, as a priority reading would have it.
IdleGuards_FallLast ==
    << G("v>1.0", ASSIST, OP_PROFILE_POSITION, TRUE, "keep", 0, FALSE, 0),
       G("R_CALIB", CALIB, "none", FALSE, "calib", 0, FALSE, R_CALIB),
       G("R_MANUAL", MANUAL, OP_PROFILE_POSITION, FALSE, "keep", 0, FALSE, R_MANUAL),
       FallGuard >>

\* Mutant: the Idle -> Assisted body without its setMode and enable wait.
IdleGuards_NoSwitch ==
    << FallGuard,
       G("v>1.0", ASSIST, "none", FALSE, "keep", 0, FALSE, 0),
       G("R_CALIB", CALIB, "none", FALSE, "calib", 0, FALSE, R_CALIB),
       G("R_MANUAL", MANUAL, OP_PROFILE_POSITION, FALSE, "keep", 0, FALSE, R_MANUAL) >>

IdleGuards ==
    << FallGuard,
       G("v>1.0", ASSIST, OP_PROFILE_POSITION, TRUE, "keep", 0, FALSE, 0),
       G("R_CALIB", CALIB, "none", FALSE, "calib", 0, FALSE, R_CALIB),
       G("R_MANUAL", MANUAL, OP_PROFILE_POSITION, FALSE, "keep", 0, FALSE, R_MANUAL) >>

\* Mutant: the Calibrating body without user_req &= ~R_CALIB.
CalibGuards_NoClear ==
    << G("true", IDLE, "none", FALSE, "off", 0, FALSE, 0) >>

CalibGuards ==
    << G("true", IDLE, "none", FALSE, "off", R_CALIB, FALSE, 0) >>

\* Mutant: the resume body of Manual without user_req &= ~(R_RESUME | R_MANUAL).
ManualGuards_NoClear ==
    << G("R_RESUME", IDLE, "none", FALSE, "keep", 0, FALSE, R_RESUME) >>

ManualGuards ==
    << G("R_RESUME", IDLE, "none", FALSE, "keep", R_RESUME + R_MANUAL, FALSE, R_RESUME) >>

\* Mutant: the stop guard is evaluated before the low-speed guard.
AssistGuards_StopFirst ==
    << FallGuard,
       G("v>HIGH", AUTO, OP_PROFILE_TORQUE, TRUE, "keep", 0, FALSE, 0),
       G("R_STOP", E_STOP, "none", FALSE, "keep", 0, TRUE, R_STOP),
       G("v<0.5", IDLE, "none", FALSE, "keep", 0, FALSE, 0) >>

AssistGuards ==
    << FallGuard,
       G("v>HIGH", AUTO, OP_PROFILE_TORQUE, TRUE, "keep", 0, FALSE, 0),
       G("v<0.5", IDLE, "none", FALSE, "keep", 0, FALSE, 0),
       G("R_STOP", E_STOP, "none", FALSE, "keep", 0, TRUE, R_STOP) >>

\* Mutant: the Autonomous -> Assisted body without its setMode and enable wait.
AutoGuards_NoSwitch ==
    << FallGuard,
       G("v<LOW", ASSIST, "none", FALSE, "keep", 0, FALSE, 0),
       G("R_STOP", E_STOP, "none", FALSE, "keep", 0, TRUE, R_STOP) >>

AutoGuards ==
    << FallGuard,
       G("v<LOW", ASSIST, OP_PROFILE_POSITION, TRUE, "keep", 0, FALSE, 0),
       G("R_STOP", E_STOP, "none", FALSE, "keep", 0, TRUE, R_STOP) >>

\* Mutant: the Fallen -> Idle body puts the torque motor in position mode.
FallenGuards_Switch ==
    << G("upright", IDLE, OP_PROFILE_POSITION, FALSE, "off", 0, FALSE, 0) >>

FallenGuards ==
    << G("upright", IDLE, "none", FALSE, "off", 0, FALSE, 0) >>

\* Mutant: the resume body of EmergencyStop clears R_RESUME only.
EStopGuards_ResumeOnly ==
    << FallGuard,
       G("R_RESUME", IDLE, "none", FALSE, "keep", R_RESUME, FALSE, R_RESUME) >>

EStopGuards ==
    << FallGuard,
       G("R_RESUME", IDLE, "none", FALSE, "keep", R_RESUME + R_STOP, FALSE, R_RESUME) >>

GuardsOf(c) ==
    CASE c = IDLE   -> IdleGuards
      [] c = CALIB  -> CalibGuards
      [] c = MANUAL -> ManualGuards
      [] c = ASSIST -> AssistGuards
      [] c = AUTO   -> AutoGuards
      [] c = FALLEN -> FallenGuards
      [] c = E_STOP -> EStopGuards

\* Mutant: the fall comparison is >= instead of >.
Holds_NonStrict(cond, p, s, r) ==
    CASE cond = "fall"     -> fabs(p) >= FTHRESH
      [] cond = "upright"  -> fabs(p) < UTHRESH
      [] cond = "v>1.0"    -> s > IDLE_V_THRESH
      [] cond = "v>HIGH"   -> s > HIGH_V_THRESH
      [] cond = "v<0.5"    -> s < STOP_V_THRESH
      [] cond = "v<LOW"    -> s < LOW_V_THRESH
      [] cond = "R_CALIB"  -> HasBit(r, R_CALIB)
      [] cond = "R_MANUAL" -> HasBit(r, R_MANUAL)
      [] cond = "R_STOP"   -> HasBit(r, R_STOP)
      [] cond = "R_RESUME" -> HasBit(r, R_RESUME)
      [] cond = "true"     -> TRUE

\* The condition of a guard, on the snapshot and the request byte.
Holds(cond, p, s, r) ==
    CASE cond = "fall"     -> fabs(p) > FTHRESH
      [] cond = "upright"  -> fabs(p) < UTHRESH
      [] cond = "v>1.0"    -> s > IDLE_V_THRESH
      [] cond = "v>HIGH"   -> s > HIGH_V_THRESH
      [] cond = "v<0.5"    -> s < STOP_V_THRESH
      [] cond = "v<LOW"    -> s < LOW_V_THRESH
      [] cond = "R_CALIB"  -> HasBit(r, R_CALIB)
      [] cond = "R_MANUAL" -> HasBit(r, R_MANUAL)
      [] cond = "R_STOP"   -> HasBit(r, R_STOP)
      [] cond = "R_RESUME" -> HasBit(r, R_RESUME)
      [] cond = "true"     -> TRUE

\* The state action called at the end of each case.
ActionOf(c) ==
    CASE c = IDLE   -> "idle"
      [] c = CALIB  -> "calibrate"
      [] c = MANUAL -> "manual"
      [] c = ASSIST -> "assist"
      [] c = AUTO   -> "automatic"
      [] c = FALLEN -> "fallen"
      [] c = E_STOP -> "emergency_stop"

\* The actuator call the state action makes, "none" when it makes none.
CommandOf(a) ==
    CASE a = "assist"    -> "setPosition"
      [] a = "automatic" -> "setTorque"
      [] OTHER           -> "none"

ActionNames == {ActionOf(c) : c \in States}

Call(op) == [op |-> op, mode |-> mode, st |-> state, ref |-> del_r]

----------------------------------------------------------------------------
(* State after setup() and the initialisers of the globals.  The mode the  *)
(* torque motor is left in by start() is not fixed by this file.           *)

Init ==
    /\ state = IDLE
    /\ cas = IDLE
    /\ user_req = 0
    /\ phi = 0
    /\ v = 0
    /\ del_r = 0
    /\ v_r = 0
    /\ mode \in Modes
    /\ driveSpeed = 0
    /\ pulse = "off"
    /\ rgb = IDLE
    /\ pc = "sense"
    /\ gi = 1
    /\ lastG = 0
    /\ log = << >>
    /\ startReq = 0
    /\ startMode = mode
    /\ fires = [b \in ReqBits |-> 0]

----------------------------------------------------------------------------
(* Sensor update, lines 176-185: the tick starts and phi is read.           *)
SenseFrom(P) ==
    /\ pc = "sense"
    /\ \E p \in P : phi' = p
    /\ cas' = state
    /\ gi' = 1
    /\ lastG' = 0
    /\ log' = << >>
    /\ startReq' = user_req
    /\ startMode' = mode
    /\ pc' = "speed"
    /\ UNCHANGED <<state, user_req, v, del_r, v_r, mode, driveSpeed, pulse, rgb,
                   fires>>

Sense == SenseFrom(PhiVals)

(* v = drive_motor->getSpeed() and switch (state): lines 186-193 *)
ReadSpeedFrom(V) ==
    /\ pc = "speed"
    /\ \E s \in V : v' = s
    /\ pc' = "guard"
    /\ UNCHANGED <<state, cas, user_req, phi, del_r, v_r, mode, driveSpeed, pulse,
                   rgb, gi, lastG, log, startReq, startMode, fires>>

ReadSpeed == ReadSpeedFrom(VVals)

\* Where the tick goes after guard i of the current case is done.
AfterGuard(i) ==
    IF i >= Len(GuardsOf(cas))
    THEN /\ pc' = "action"
         /\ gi' = i
    ELSE /\ pc' = "guard"
         /\ gi' = i + 1

NewPulse(g) == IF g.pulse = "keep" THEN pulse ELSE g.pulse

(* One if-statement of the transition section.  A body with setMode stops  *)
(* in the enable wait.                                                     *)
GuardStep ==
    /\ pc = "guard"
    /\ LET g == GuardsOf(cas)[gi] IN
         IF Holds(g.cond, phi, v, user_req)
         THEN /\ state' = g.to
              /\ lastG' = gi
              /\ user_req' = ClearBits(user_req, g.clear)
              /\ pulse' = NewPulse(g)
              /\ driveSpeed' = IF g.stop THEN 0 ELSE driveSpeed
              /\ IF g.set = "none"
                 THEN /\ rgb' = g.to
                      /\ mode' = mode
                      /\ log' = IF g.stop
                                THEN Append(log, [op |-> "setSpeed", mode |-> mode, st |-> g.to, ref |-> del_r])
                                ELSE log
                      /\ AfterGuard(gi)
                 ELSE /\ rgb' = IF g.late THEN rgb ELSE g.to
                      /\ mode' = g.set
                      /\ log' = Append(log, [op |-> "setMode", mode |-> g.set, st |-> g.to, ref |-> del_r])
                      /\ pc' = "enable"
                      /\ gi' = gi
         ELSE /\ AfterGuard(gi)
              /\ UNCHANGED <<state, lastG, user_req, pulse, driveSpeed, rgb, mode, log>>
    /\ UNCHANGED <<cas, phi, v, del_r, v_r, startReq, startMode, fires>>

\* enableOperation() returns false: the while loop spins.
EnableWait ==
    /\ pc = "enable"
    /\ UNCHANGED vars

\* enableOperation() returns true: the body of the guard completes.
EnableDone ==
    /\ pc = "enable"
    /\ LET g == GuardsOf(cas)[gi] IN
         rgb' = IF g.late THEN g.to ELSE rgb
    /\ log' = Append(log, Call("enableOperation"))
    /\ AfterGuard(gi)
    /\ UNCHANGED <<state, cas, user_req, phi, v, del_r, v_r, mode, driveSpeed,
                   pulse, lastG, startReq, startMode, fires>>

\* The request bit whose guard decided this tick's transition, 0 if none.
FiredBit ==
    IF lastG = 0 THEN 0 ELSE GuardsOf(cas)[lastG].req

Bump(n) == IF n < MaxFires THEN n + 1 ELSE n

(* The state action of the case: lines 225, 240, 254, 286, 313, 327, 347   *)
(* and the bodies at lines 402-445.                                        *)
Action ==
    /\ pc = "action"
    /\ LET a == ActionOf(cas)
           c == CommandOf(a)
       IN  log' = IF c = "none"
                  THEN Append(log, Call(a))
                  ELSE Append(Append(log, Call(a)), Call(c))
    /\ fires' = IF FiredBit = 0
                THEN fires
                ELSE [fires EXCEPT ![FiredBit] = Bump(@)]
    /\ pc' = "report"
    /\ UNCHANGED <<state, cas, user_req, phi, v, del_r, v_r, mode, driveSpeed,
                   pulse, rgb, gi, lastG, startReq, startMode>>

\* Mutant: the report is given the state the tick started in.
Report_StartState ==
    /\ pc = "report"
    /\ log' = Append(log, [op |-> "report", mode |-> mode, st |-> cas, ref |-> del_r])
    /\ pc' = "poll"
    /\ UNCHANGED <<state, cas, user_req, phi, v, del_r, v_r, mode, driveSpeed,
                   pulse, rgb, gi, lastG, startReq, startMode, fires>>

\* Mutant: telemetry is sent only when the state did not change in the tick.
Report_OnlyUnchanged ==
    /\ pc = "report"
    /\ log' = IF state = cas THEN Append(log, Call("report")) ELSE log
    /\ pc' = "poll"
    /\ UNCHANGED <<state, cas, user_req, phi, v, del_r, v_r, mode, driveSpeed,
                   pulse, rgb, gi, lastG, startReq, startMode, fires>>

\* report(state): line 357
Report ==
    /\ pc = "report"
    /\ log' = Append(log, Call("report"))
    /\ pc' = "poll"
    /\ UNCHANGED <<state, cas, user_req, phi, v, del_r, v_r, mode, driveSpeed,
                   pulse, rgb, gi, lastG, startReq, startMode, fires>>

\* TELEMETRY.available() is 0: line 359
PollEmpty ==
    /\ pc = "poll"
    /\ pc' = "sense"
    /\ UNCHANGED <<state, cas, user_req, phi, v, del_r, v_r, mode, driveSpeed,
                   pulse, rgb, gi, lastG, log, startReq, startMode, fires>>

\* The frames the channel can deliver: a tag and the value that follows it.
Frames ==
    {f \in [tag : Tags, val : Payloads] :
        /\ f.tag \in {"s", "d"} => f.val \in RefVals
        /\ f.tag = "other" => f.val = 0}

\* Mutant: case 'd' without its break, falling through into case 'c'.
FrameEffect_FallThrough(f) ==
    [v_r        |-> IF f.tag = "s" THEN f.val ELSE v_r,
     driveSpeed |-> IF f.tag = "s" THEN f.val ELSE driveSpeed,
     del_r      |-> IF f.tag = "d" THEN f.val ELSE del_r,
     user_req   |-> IF f.tag \in {"c", "d"} THEN OrBits(user_req, f.val) ELSE user_req]

\* switch (c): what frame f leaves in the command register and the drive motor.
FrameEffect(f) ==
    [v_r        |-> IF f.tag = "s" THEN f.val ELSE v_r,
     driveSpeed |-> IF f.tag = "s" THEN f.val ELSE driveSpeed,
     del_r      |-> IF f.tag = "d" THEN f.val ELSE del_r,
     user_req   |-> IF f.tag = "c" THEN OrBits(user_req, f.val) ELSE user_req]

\* One inbound frame, out of F: lines 382-397
PollFrameFrom(F) ==
    /\ pc = "poll"
    /\ \E f \in F :
          /\ v_r' = FrameEffect(f).v_r
          /\ driveSpeed' = FrameEffect(f).driveSpeed
          /\ del_r' = FrameEffect(f).del_r
          /\ user_req' = FrameEffect(f).user_req
    /\ fires' = [b \in ReqBits |-> 0]
    /\ pc' = "sense"
    /\ UNCHANGED <<state, cas, phi, v, mode, pulse, rgb, gi, lastG, log,
                   startReq, startMode>>

PollFrame == PollFrameFrom(Frames)

\* Frames that carry no reference: request flags and unrecognised tags.
ReqFrames == {f \in Frames : f.tag \in {"c", "other"}}

PollReq == PollFrameFrom(ReqFrames)

Next ==
    \/ Sense
    \/ ReadSpeed
    \/ GuardStep
    \/ EnableWait
    \/ EnableDone
    \/ Action
    \/ Report
    \/ PollEmpty
    \/ PollFrame

Spec == Init /\ [][Next]_vars

(* The loop never stops: every step of a tick that can run does run.  The  *)
(* busy-wait is the one place that may spin; fairness of EnableDone states *)
(* that enableOperation() eventually returns true.                         *)
Fairness ==
    /\ WF_vars(GuardStep)
    /\ WF_vars(EnableDone)
    /\ WF_vars(Action)
    /\ WF_vars(Report)
    /\ WF_vars(PollEmpty \/ PollReq)

(* The loop under fairness.  No guard reads a reference, so the channel    *)
(* here delivers request and unrecognised frames only.                     *)
NextLive ==
    \/ Sense
    \/ ReadSpeed
    \/ GuardStep
    \/ EnableWait
    \/ EnableDone
    \/ Action
    \/ Report
    \/ PollEmpty
    \/ PollReq

SpecLive ==
    Init /\ [][NextLive]_vars /\ WF_vars(Sense) /\ WF_vars(ReadSpeed) /\ Fairness

(* The loop with the vehicle lying beyond the fall threshold at every      *)
(* tick, the speed and the request frames free.                            *)

LeanVals == {p \in PhiVals : fabs(p) > FTHRESH}

SenseLean == SenseFrom(LeanVals)

NextLean ==
    \/ SenseLean
    \/ ReadSpeed
    \/ GuardStep
    \/ EnableWait
    \/ EnableDone
    \/ Action
    \/ Report
    \/ PollEmpty
    \/ PollReq

SpecLean ==
    Init /\ [][NextLean]_vars /\ WF_vars(SenseLean) /\ WF_vars(ReadSpeed) /\ Fairness

(* The loop with the snapshot held constant and a silent command channel,  *)
(* started in any of the seven states with any request bits pending.       *)

InitFrozen ==
    /\ state \in States
    /\ cas = state
    /\ user_req \in 0..15
    /\ phi \in PhiVals
    /\ v \in VVals
    /\ del_r = 0
    /\ v_r = 0
    /\ mode \in Modes
    /\ driveSpeed = 0
    /\ pulse = "off"
    /\ rgb = state
    /\ pc = "sense"
    /\ gi = 1
    /\ lastG = 0
    /\ log = << >>
    /\ startReq = user_req
    /\ startMode = mode
    /\ fires = [b \in ReqBits |-> 0]

SenseFrozen == SenseFrom({phi})

ReadSpeedFrozen == ReadSpeedFrom({v})

NextFrozen ==
    \/ SenseFrozen
    \/ ReadSpeedFrozen
    \/ GuardStep
    \/ EnableWait
    \/ EnableDone
    \/ Action
    \/ Report
    \/ PollEmpty

SpecFrozen == InitFrozen /\ [][NextFrozen]_vars

----------------------------------------------------------------------------
(* The default case of switch (state).  No assignment of the program gives *)
(* state a value outside IDLE .. E_STOP; the case is examined from a start *)
(* in which the byte already holds such a value.                           *)

\* Values of the byte that are none of the seven states.
InvalidStates == (0..MaxState) \ States

InitFault ==
    /\ state \in InvalidStates
    /\ cas = IDLE
    /\ user_req = 0
    /\ phi = 0
    /\ v = 0
    /\ del_r = 0
    /\ v_r = 0
    /\ mode \in Modes
    /\ driveSpeed = 0
    /\ pulse = "off"
    /\ rgb = IDLE
    /\ pc = "sense"
    /\ gi = 1
    /\ lastG = 0
    /\ log = << >>
    /\ startReq = 0
    /\ startMode = mode
    /\ fires = [b \in ReqBits |-> 0]

\* default: indicator.setPassiveRGB(0, 0, 0); break;  lines 351-353
DefaultCase ==
    /\ pc = "guard"
    /\ cas \notin States
    /\ rgb' = "off"
    /\ pc' = "report"
    /\ UNCHANGED <<state, cas, user_req, phi, v, del_r, v_r, mode, driveSpeed,
                   pulse, gi, lastG, log, startReq, startMode, fires>>

NextFault ==
    \/ Sense
    \/ ReadSpeed
    \/ DefaultCase
    \/ Report
    \/ PollEmpty
    \/ PollFrame

SpecFault == InitFault /\ [][NextFault]_vars

----------------------------------------------------------------------------
TypeOK ==
    /\ state \in States \cup InvalidStates
    /\ cas \in States \cup InvalidStates
    /\ user_req \in 0..15
    /\ phi \in PhiVals \cup {0}
    /\ v \in VVals
    /\ mode \in Modes
    /\ pulse \in {"off", "fallen", "calib"}
    /\ pc \in {"sense", "speed", "guard", "enable", "action", "report", "poll"}

----------------------------------------------------------------------------
(* Positions of a tick the properties refer to *)

\* The poll has run: the tick is over and the next has not started.
TickEnd == pc = "sense" /\ log # << >>

\* The transition section of the tick has run to its end.
Decided == pc \in {"action", "report", "poll"} \/ TickEnd

\* The state action of the tick has been called.
Acted == pc \in {"report", "poll"} \/ TickEnd

Ops(names) == {i \in DOMAIN log : log[i].op \in names}

----------------------------------------------------------------------------
(* The transition table as the specification lists it: per state the       *)
(* guards in table order, each with its To state.                          *)

TableOf(s) ==
    CASE s = IDLE   -> << <<"fall", FALLEN>>, <<"v>1.0", ASSIST>>,
                          <<"R_CALIB", CALIB>>, <<"R_MANUAL", MANUAL>> >>
      [] s = ASSIST -> << <<"fall", FALLEN>>, <<"v>HIGH", AUTO>>,
                          <<"v<0.5", IDLE>>, <<"R_STOP", E_STOP>> >>
      [] s = AUTO   -> << <<"fall", FALLEN>>, <<"v<LOW", ASSIST>>,
                          <<"R_STOP", E_STOP>> >>
      [] s = E_STOP -> << <<"fall", FALLEN>>, <<"R_RESUME", IDLE>> >>
      [] s = CALIB  -> << <<"true", IDLE>> >>
      [] s = MANUAL -> << <<"R_RESUME", IDLE>> >>
      [] s = FALLEN -> << <<"upright", IDLE>> >>

\* Rows of s that match the tick-start inputs.
Matching(s, p, sp, r) ==
    {i \in DOMAIN TableOf(s) : Holds(TableOf(s)[i][1], p, sp, r)}

Last(S) == CHOOSE i \in S : \A j \in S : j <= i

\* The To state of the last matching row, s itself when none matches.
LastMatchTo(s, p, sp, r) ==
    IF Matching(s, p, sp, r) = {}
    THEN s
    ELSE TableOf(s)[Last(Matching(s, p, sp, r))][2]

(* C1: in every state and for every lean angle, speed and request bits at  *)
(* tick start, the state after the transition evaluation is the To state   *)
(* of the last guard that matches in the table order of the tick-start     *)
(* state, and the tick-start state itself when none matches.               *)
C1_LastMatchingGuardWins ==
    Decided => state = LastMatchTo(cas, phi, v, startReq)

\* Three guards of Idle match in one tick and the last one decides.
C1_Witness ==
    /\ TickEnd
    /\ cas = IDLE
    /\ fabs(phi) > FTHRESH
    /\ v > IDLE_V_THRESH
    /\ HasBit(startReq, R_MANUAL)
    /\ state = MANUAL

(* C2: every setPosition is issued while the torque motor is in position   *)
(* mode and every setTorque while it is in torque mode.                    *)
C2_CommandMatchesMode ==
    \A i \in DOMAIN log :
        /\ log[i].op = "setPosition" => log[i].mode = OP_PROFILE_POSITION
        /\ log[i].op = "setTorque" => log[i].mode = OP_PROFILE_TORQUE

(* C3: at the end of every tick, Assisted and Manual go with position      *)
(* mode and Autonomous goes with torque mode.                              *)
C3_ModeInvariant ==
    TickEnd =>
        /\ state \in {ASSIST, MANUAL} => mode = OP_PROFILE_POSITION
        /\ state = AUTO => mode = OP_PROFILE_TORQUE

\* Autonomous falls back to Assisted in a tick whose fall guard also matched.
C3_Witness ==
    /\ TickEnd
    /\ cas = AUTO
    /\ fabs(phi) > FTHRESH
    /\ state = ASSIST
    /\ startMode = OP_PROFILE_TORQUE
    /\ mode = OP_PROFILE_POSITION

(* C4: a tick invokes exactly one state action and it is the action of     *)
(* the state the transition evaluation resulted in.                        *)
C4_ActionOfResultingState ==
    Acted =>
        /\ Cardinality(Ops(ActionNames)) = 1
        /\ \A i \in Ops(ActionNames) : log[i].op = ActionOf(state)

(* C5: at the end of every tick in Fallen or EmergencyStop the commanded   *)
(* drive speed is 0.                                                       *)
C5_ZeroDriveWhileSafed ==
    (TickEnd /\ state \in {FALLEN, E_STOP}) => driveSpeed = 0

(* C6: a tick that begins in Assisted or Autonomous with RequestStop set   *)
(* results in EmergencyStop whatever the lean angle and the speed, has     *)
(* called setSpeed(0), and leaves the drive speed at 0 when the            *)
(* supervisor is done (before the command poll of the tick).               *)
C6_StopWins ==
    (Decided /\ cas \in {ASSIST, AUTO} /\ HasBit(startReq, R_STOP)) =>
        /\ state = E_STOP
        /\ Ops({"setSpeed"}) # {}
        /\ ~TickEnd => driveSpeed = 0

\* The stop guard overrides the fall guard and the high-speed guard.
C6_Witness ==
    /\ TickEnd
    /\ cas = ASSIST
    /\ HasBit(startReq, R_STOP)
    /\ fabs(phi) > FTHRESH
    /\ v > HIGH_V_THRESH
    /\ state = E_STOP

(* C7: between two frames of the command channel no request bit triggers   *)
(* more than one request-guarded transition.                               *)
C7_ConsumedAtMostOnce ==
    \A b \in ReqBits : fires[b] <= 1

(* C8 as stated: a tick that results in Idle, Calibrating, Fallen or       *)
(* EmergencyStop issues no setMode and no enable wait and leaves the mode  *)
(* as it was.                                                              *)
C8_NoModeChange ==
    (TickEnd /\ state \in {IDLE, CALIB, FALLEN, E_STOP}) =>
        /\ Ops({"setMode", "enableOperation"}) = {}
        /\ mode = startMode

\* The speed guard of the tick-start state matched.
SpeedGuardMatched ==
    \/ cas = IDLE /\ v > IDLE_V_THRESH
    \/ cas = ASSIST /\ v > HIGH_V_THRESH
    \/ cas = AUTO /\ v < LOW_V_THRESH

(* C8 amended: a tick that results in Idle or Fallen changes no mode; a    *)
(* tick that results in Calibrating or EmergencyStop changes no mode       *)
(* unless the mode-switching speed guard of its tick-start state matched   *)
(* and was overwritten, and then it has issued that guard's setMode and    *)
(* enable wait.                                                            *)
C8_NoModeChangeUnlessOverwritten ==
    (TickEnd /\ state \in {IDLE, CALIB, FALLEN, E_STOP}) =>
        /\ (state \in {IDLE, FALLEN} \/ ~SpeedGuardMatched) =>
              /\ Ops({"setMode", "enableOperation"}) = {}
              /\ mode = startMode
        /\ (state \in {CALIB, E_STOP} /\ SpeedGuardMatched) =>
              /\ Cardinality(Ops({"setMode"})) = 1
              /\ Cardinality(Ops({"enableOperation"})) = 1

\* Assisted is left for Idle at low speed, in torque-free position mode.
C8_Witness ==
    /\ TickEnd
    /\ cas = ASSIST
    /\ state = IDLE
    /\ mode = startMode
    /\ Ops({"setMode", "enableOperation"}) = {}

(* C9: from Idle with neither RequestCalibrate nor RequestManual pending,  *)
(* speed > 1.0 together with a lean beyond the fall threshold results in   *)
(* Assisted, and the torque motor has been switched to position mode.      *)
C9_SpeedOverridesFallInIdle ==
    (/\ Decided
     /\ cas = IDLE
     /\ ~HasBit(startReq, R_CALIB)
     /\ ~HasBit(startReq, R_MANUAL)
     /\ v > IDLE_V_THRESH
     /\ fabs(phi) > FTHRESH) =>
        /\ state = ASSIST
        /\ mode = OP_PROFILE_POSITION
        /\ \E i \in Ops({"setMode"}) : log[i].mode = OP_PROFILE_POSITION

\* The case happens with the motor in torque mode beforehand.
C9_Witness ==
    /\ TickEnd
    /\ cas = IDLE
    /\ startReq = 0
    /\ v > IDLE_V_THRESH
    /\ fabs(phi) > FTHRESH
    /\ startMode = OP_PROFILE_TORQUE
    /\ state = ASSIST

(* C10: a tick that begins in Calibrating results in Idle with             *)
(* RequestCalibrate cleared and the pulse disabled, whatever the snapshot  *)
(* and the request bits; so Calibrating never ends two consecutive ticks,  *)
(* and calibrate() runs once in a tick that begins in Calibrating and in   *)
(* no other tick.                                                          *)
C10_CalibratingLastsOneTick ==
    /\ (Decided /\ cas = CALIB) =>
          /\ state = IDLE
          /\ pulse = "off"
          /\ ~TickEnd => ~HasBit(user_req, R_CALIB)
    /\ Acted =>
          Cardinality(Ops({"calibrate"})) = (IF cas = CALIB THEN 1 ELSE 0)

\* A calibration tick that started with other requests pending and a lean.
C10_Witness ==
    /\ TickEnd
    /\ cas = CALIB
    /\ HasBit(startReq, R_CALIB)
    /\ HasBit(startReq, R_MANUAL)
    /\ fabs(phi) > FTHRESH
    /\ state = IDLE

(* C11: the steps of a tick run in the order transition evaluation, state  *)
(* action, report, command poll.  The report carries the state this tick's *)
(* transition evaluation produced; the guards and the control law of a     *)
(* tick see no request bit and no reference that arrived after the tick    *)
(* started, so what the poll of tick N stores is first used in tick N+1.   *)
C11_TickOrder ==
    /\ (pc \in {"speed", "guard", "enable", "action", "report", "poll"}) =>
          ClearBits(user_req, startReq) = 0
    /\ (pc \in {"speed", "guard", "enable", "action"}) =>
          Ops(ActionNames \cup {"setPosition", "setTorque", "report"}) = {}
    /\ (pc = "report") =>
          /\ Ops({"report"}) = {}
          /\ \A i \in Ops({"setPosition", "setTorque"}) : log[i].ref = del_r
    /\ (pc = "poll" \/ TickEnd) =>
          /\ Ops({"report"}) = {Len(log)}
          /\ log[Len(log)].st = state
          /\ log[Len(log)].st = LastMatchTo(cas, phi, v, startReq)
          /\ \A i \in Ops(ActionNames) :
                /\ \A j \in Ops({"setMode", "enableOperation", "setSpeed"}) : j < i
                /\ i < Len(log)

\* A tick that changed the state has reported the new state, and its poll
\* has stored a request the tick itself did not see.
C11_Witness ==
    /\ TickEnd
    /\ cas = IDLE
    /\ state = ASSIST
    /\ log[Len(log)].op = "report"
    /\ log[Len(log)].st = ASSIST
    /\ startReq = 0
    /\ user_req = R_STOP

\* Everything but the position inside the enable wait.
AllButLog == <<state, cas, user_req, phi, v, del_r, v_r, mode, driveSpeed,
               pulse, rgb, gi, lastG, startReq, startMode, fires>>

(* C12: with enableOperation() eventually true after each setMode, every   *)
(* tick that starts comes to its end and has emitted exactly one report.   *)
(* While a tick waits for enableOperation() nothing else of the tick has   *)
(* run after the setMode (no later guard, no action, no report), and the   *)
(* only step that leaves the wait is enableOperation() returning true.     *)
C12_TickTerminates ==
    /\ [](TickEnd => Cardinality(Ops({"report"})) = 1)
    /\ [](pc = "enable" =>
            /\ log[Len(log)].op = "setMode"
            /\ Ops(ActionNames \cup {"report"}) = {})
    /\ [][pc = "enable" =>
            \/ pc' = "enable" /\ log' = log /\ UNCHANGED AllButLog
            \/ log' = Append(log, Call("enableOperation"))]_vars
    /\ [](pc # "sense" => <>TickEnd)

\* The tick is in the enable wait of the second guard of Idle.
C12_Witness ==
    /\ pc = "enable"
    /\ cas = IDLE
    /\ gi = 2
    /\ HasBit(user_req, R_MANUAL)
    /\ state = ASSIST

FallCases == {IDLE, ASSIST, AUTO, E_STOP}

(* C14: in Idle, Assisted, Autonomous and EmergencyStop the fall guard     *)
(* fires exactly when the lean angle is strictly beyond FTHRESH on either  *)
(* side: right after the guard the state is Fallen with the fallen pulse   *)
(* iff phi > FTHRESH or phi < -FTHRESH, and such a tick never results in   *)
(* Fallen with the lean at or inside the threshold.                        *)
C14_FallGuardStrict ==
    /\ (pc = "guard" /\ gi = 2 /\ cas \in FallCases) =>
          IF phi > FTHRESH \/ phi < 0 - FTHRESH
          THEN state = FALLEN /\ pulse = "fallen"
          ELSE state = cas
    /\ (Decided /\ cas \in FallCases /\ state = FALLEN) =>
          (phi > FTHRESH \/ phi < 0 - FTHRESH)

\* The lean is exactly at the threshold, on the negative side: no fall.
C14_Witness ==
    /\ pc = "guard"
    /\ gi = 2
    /\ cas = ASSIST
    /\ phi = 0 - FTHRESH
    /\ state = ASSIST

\* The bits the claim says a tick removes, given its case and start bits.
ClearedBy(c, r) ==
    IF c = CALIB THEN {R_CALIB}
    ELSE IF c = MANUAL /\ HasBit(r, R_RESUME) THEN {R_RESUME, R_MANUAL}
    ELSE IF c = E_STOP /\ HasBit(r, R_RESUME) THEN {R_RESUME, R_STOP}
    ELSE {}

(* C15: when the supervisor part of a tick is done, the request bits are   *)
(* those of the tick start less RequestCalibrate in a tick that began in   *)
(* Calibrating, less RequestResume and RequestManual on Manual -> Idle,    *)
(* less RequestResume and RequestStop on EmergencyStop -> Idle, and        *)
(* unchanged in every other tick; before that point no bit is ever added,  *)
(* and no step other than the command poll changes a reference.           *)
C15_SupervisorClearsOnly ==
    /\ [](pc \in {"action", "report", "poll"} =>
            \A b \in ReqBits :
                HasBit(user_req, b) <=>
                    (HasBit(startReq, b) /\ b \notin ClearedBy(cas, startReq)))
    /\ [](pc \in {"guard", "enable"} =>
            \A b \in ReqBits : HasBit(user_req, b) => HasBit(startReq, b))
    /\ [][pc # "poll" => (del_r' = del_r /\ v_r' = v_r)]_vars

\* EmergencyStop is left on resume with other requests pending.
C15_Witness ==
    /\ pc = "poll"
    /\ cas = E_STOP
    /\ startReq = R_RESUME + R_STOP + R_MANUAL
    /\ user_req = R_MANUAL
    /\ state = IDLE

\* The command register and the drive setpoint as they stand.
Register ==
    [v_r |-> v_r, driveSpeed |-> driveSpeed, del_r |-> del_r, user_req |-> user_req]

(* C16: at the command poll a frame with an unrecognised tag changes       *)
(* nothing; set-speed changes speed_ref and the drive setpoint only, to    *)
(* the value sent; set-steer-reference changes steer_angle_ref only;       *)
(* set-request-flags changes the request bits only, adding the bits sent.  *)
(* The poll changes nothing else: not the vehicle state, the actuator      *)
(* mode or the indicator.                                                  *)
C16_OneMutationPerTag ==
    /\ [](pc = "poll" =>
            \A f \in Frames :
                LET e == FrameEffect(f) IN
                /\ f.tag = "other" => e = Register
                /\ f.tag = "s" => e = [Register EXCEPT !.v_r = f.val,
                                                        !.driveSpeed = f.val]
                /\ f.tag = "d" => e = [Register EXCEPT !.del_r = f.val]
                /\ f.tag = "c" =>
                      /\ [e EXCEPT !.user_req = user_req] = Register
                      /\ \A b \in ReqBits :
                            HasBit(e.user_req, b) <=>
                                (HasBit(user_req, b) \/ HasBit(f.val, b)))
    /\ [][pc = "poll" =>
            /\ UNCHANGED <<state, cas, mode, pulse, rgb, phi, v, log>>
            /\ (v_r' # v_r \/ driveSpeed' # driveSpeed) =>
                  (driveSpeed' = v_r' /\ del_r' = del_r /\ user_req' = user_req)
            /\ del_r' # del_r =>
                  (v_r' = v_r /\ driveSpeed' = driveSpeed /\ user_req' = user_req)
            /\ user_req' # user_req =>
                  /\ v_r' = v_r /\ driveSpeed' = driveSpeed /\ del_r' = del_r
                  /\ \A b \in ReqBits : HasBit(user_req, b) => HasBit(user_req', b)]_vars

\* A set-steer-reference frame has been taken and nothing else has changed.
C16_Witness ==
    /\ TickEnd
    /\ del_r = 1
    /\ v_r = 0
    /\ driveSpeed = 0
    /\ user_req = 0
    /\ state = IDLE

(* C17: with the lean beyond the fall threshold at every tick and the      *)
(* state never Manual, the state eventually becomes Fallen and stays       *)
(* Fallen, whatever the speed and the command channel do.                  *)
C17_FallEventuallyHonoured ==
    [](state # MANUAL) => <>[](state = FALLEN)

(* C18: with the snapshot held constant and no further frames, from every  *)
(* state and every value of the request bits the state changes only        *)
(* finitely often: from some point on no step changes it.                  *)
C18_StateSettles ==
    <>[][state' = state]_vars

\* Manual was left on resume, Calibrating visited, and Idle reached again.
C18_Witness ==
    /\ TickEnd
    /\ cas = CALIB
    /\ state = IDLE
    /\ user_req = 0
    /\ fires[R_RESUME] = 1
    /\ fires[R_CALIB] = 1

(* C19: at the end of every tick the pulse is armed only in Fallen, with   *)
(* (500,1500), or in Calibrating, with (250,250); in Idle, Manual,         *)
(* Assisted, Autonomous and EmergencyStop it is disabled.                  *)
C19_PulseOnlyFallenOrCalib ==
    TickEnd =>
        \/ pulse = "off"
        \/ state = FALLEN /\ pulse = "fallen"
        \/ state = CALIB /\ pulse = "calib"

(* C20: emergency stop is latched until the operator resumes.  When an     *)
(* earlier tick ended in EmergencyStop (a stop guard decided it) and no    *)
(* resume guard has decided a tick since the start, a tick does not end in *)
(* Assisted, Autonomous or Manual and issues no setPosition or setTorque.  *)
C20_StopLatchedUntilResume ==
    (/\ TickEnd
     /\ fires[R_STOP] >= 1
     /\ FiredBit # R_STOP
     /\ fires[R_RESUME] = 0)
    => /\ state \notin {ASSIST, AUTO, MANUAL}
       /\ Ops({"setPosition", "setTorque"}) = {}

====
